---- MODULE Spec2Model ----
(***************************************************************************)
(* Backend of simple-fortune-cookie-rust: the in-memory fortune store, the *)
(* optional Redis mirror (hash "fortunes") and the warp request handlers.  *)
(*   src/backend/src/main.rs          store, handlers, routes, startup     *)
(*   src/backend/src/redis_client.rs  init / get_client / load / get / set *)
(***************************************************************************)
EXTENDS Integers, Sequences, FiniteSets, Bags, TLC

(* ------------------------------ bounds -------------------------------- *)
\* number of request tasks the server runs concurrently
NTasks == 2
\* number of requests accepted in one run
MaxRequests == 2

(* ------------------------- program constants -------------------------- *)
\* redis_client.rs:16  for attempt in 1..=5
MaxAttempts == 5

Tasks == 1..NTasks

None == "None"

\* Fortune { id, message }
Fortune(i, m) == [id |-> i, message |-> m]
\* no fortune at hand
NoFortune == Fortune(None, None)

\* messages a client posts or the external hash already holds
Msgs == {"X", "Y"}
\* ids a client posts, and ids the external hash may hold at startup
NewIds == {"1", "5"}
\* ids a client asks for: a default, a non-default, and the word "random"
PathIds == {"1", "5", "random"}

\* create_default_store: the four hardcoded fortunes
DefaultStore ==
    ("1" :> Fortune("1", "A new voyage will fill your life with untold memories.")) @@
    ("2" :> Fortune("2", "The measure of time to your next goal is the measure of your discipline.")) @@
    ("3" :> Fortune("3", "The only way to do well is to do better each day.")) @@
    ("4" :> Fortune("4", "It ain't over till it's EOF."))

DefaultIds == DOMAIN DefaultStore

\* the empty mapping
EmptyMap == << >>

\* contents of the Redis hash "fortunes" when the process starts (field -> value)
InitialCaches ==
    { EmptyMap,
      ("5" :> "X"),
      ("1" :> "X") @@ ("5" :> "Y") }

\* HashMap::insert: insert-or-replace under key k
MapInsert(map, k, v) == (k :> v) @@ map

VARIABLES
    mainpc,        \* position of main / init / load_fortunes
    configured,    \* REDIS_DNS is set in the environment
    attempt,       \* init's loop variable
    delays,        \* number of 2-second sleeps init has taken
    REDIS_CLIENT,  \* static mut REDIS_CLIENT: "None" or "Some"
    USING_REDIS,   \* static mut USING_REDIS
    cache,         \* the Redis hash "fortunes": id -> message
    store,         \* the HashMap behind FortuneStore: id -> Fortune
    lock,          \* the RwLock around the store: its writer and its readers
    loadKeys,      \* load_fortunes: keys of the HKEYS reply not yet visited
    pc,            \* per task: position in its handler
    req,           \* per task: the handler's arguments and locals
    nreq,          \* requests accepted so far
    lastResp,      \* the response the step just taken sent, if it sent one
    inserted,      \* history: ids inserted by the startup overlay or by create
    refreshed,     \* history: ids inserted by a get cache hit
    lastWrite,     \* history: per id, who wrote the store entry last, and what
    cacheCall,     \* history: the Redis call the step just taken made, if any
    fe             \* the frontend: the request at hand and its response

vars == << mainpc, configured, attempt, delays, REDIS_CLIENT, USING_REDIS, cache,
           store, lock, loadKeys, pc, req, nreq, lastResp, inserted, refreshed,
           lastWrite, cacheCall, fe >>

startupVars == << mainpc, configured, attempt, delays, REDIS_CLIENT, USING_REDIS,
                  loadKeys >>
taskVars == << pc, req, nreq, lastResp >>
histVars == << inserted, refreshed, lastWrite >>

NoReq == [op |-> None, id |-> None, fortune |-> NoFortune, viaRandom |-> FALSE,
          method |-> None, path |-> << >>]
\* a response: the request it answers, the status, and the JSON body, which is
\* a fortune (body), an array of fortunes (entries) or a string (text)
NoResp == [op |-> None, id |-> None, fortune |-> NoFortune, viaRandom |-> FALSE,
           method |-> None, path |-> << >>, status |-> 0, body |-> NoFortune,
           entries |-> EmptyBag, text |-> None, source |-> None]
FreeLock == [writer |-> None, readers |-> {}]
\* a Redis call: its command ("connect" when only the connection is asked for)
\* and whether the connection and the command went through
Call(op, ok) == [op |-> op, ok |-> ok]
NoCall == Call(None, TRUE)
\* the frontend with no request at hand
FeIdle == [phase |-> "idle", method |-> None, path |-> << >>, body |-> None,
           handler |-> None, rejections |-> {}, status |-> 0, text |-> None]

Init ==
    /\ mainpc = "init"
    /\ configured \in BOOLEAN
    /\ attempt = 0
    /\ delays = 0
    /\ REDIS_CLIENT = "None"
    /\ USING_REDIS = FALSE
    /\ cache \in InitialCaches
    /\ configured \/ cache = EmptyMap   \* no address, no Redis deployed
    /\ store = EmptyMap
    /\ lock = FreeLock
    /\ loadKeys = {}
    /\ pc = [t \in Tasks |-> "idle"]
    /\ req = [t \in Tasks |-> NoReq]
    /\ nreq = 0
    /\ lastResp = NoResp
    /\ inserted = {}
    /\ refreshed = {}
    /\ lastWrite = EmptyMap
    /\ cacheCall = NoCall
    /\ fe = FeIdle

(* ------------------------ redis_client::init -------------------------- *)

\* lines 8-14: REDIS_DNS unset returns at once, otherwise the loop starts at 1
InitEnv ==
    /\ mainpc = "init"
    /\ IF ~configured
          THEN mainpc' = "init_returned" /\ attempt' = attempt
          ELSE mainpc' = "init_attempt" /\ attempt' = 1
    /\ UNCHANGED << configured, delays, REDIS_CLIENT, USING_REDIS, loadKeys,
                    cache, store, lock >>
    /\ UNCHANGED taskVars
    /\ UNCHANGED histVars
    /\ cacheCall' = NoCall
    /\ UNCHANGED fe

\* lines 17-36: Client::open and get_connection; success publishes the client
InitAttempt ==
    /\ mainpc = "init_attempt"
    /\ \E ok \in BOOLEAN :
          /\ cacheCall' = Call("connect", ok)
          /\ IF ok
                THEN /\ REDIS_CLIENT' = "Some"
                     /\ USING_REDIS' = TRUE
                     /\ mainpc' = "init_returned"
                ELSE /\ UNCHANGED << REDIS_CLIENT, USING_REDIS >>
                     /\ mainpc' = "init_sleep"
    /\ UNCHANGED << configured, attempt, delays, loadKeys, cache, store, lock >>
    /\ UNCHANGED taskVars
    /\ UNCHANGED histVars
    /\ UNCHANGED fe

\* the loop written 1..=5 taken one round too far
InitSleep_OneMore ==
    /\ mainpc = "init_sleep"
    /\ delays' = delays + 1
    /\ IF attempt <= MaxAttempts
          THEN mainpc' = "init_attempt" /\ attempt' = attempt + 1
          ELSE mainpc' = "init_exhausted" /\ attempt' = attempt
    /\ UNCHANGED << configured, REDIS_CLIENT, USING_REDIS, loadKeys, cache,
                    store, lock >>
    /\ UNCHANGED taskVars
    /\ UNCHANGED histVars
    /\ cacheCall' = NoCall
    /\ UNCHANGED fe

\* line 37 and the loop header: the sleep follows every failed attempt
InitSleep ==
    /\ mainpc = "init_sleep"
    /\ delays' = delays + 1
    /\ IF attempt < MaxAttempts
          THEN mainpc' = "init_attempt" /\ attempt' = attempt + 1
          ELSE mainpc' = "init_exhausted" /\ attempt' = attempt
    /\ UNCHANGED << configured, REDIS_CLIENT, USING_REDIS, loadKeys, cache,
                    store, lock >>
    /\ UNCHANGED taskVars
    /\ UNCHANGED histVars
    /\ cacheCall' = NoCall
    /\ UNCHANGED fe

\* line 40: "Failed to connect to redis after 5 attempts"
InitExhausted ==
    /\ mainpc = "init_exhausted"
    /\ mainpc' = "init_returned"
    /\ UNCHANGED << configured, attempt, delays, REDIS_CLIENT, USING_REDIS,
                    loadKeys, cache, store, lock >>
    /\ UNCHANGED taskVars
    /\ UNCHANGED histVars
    /\ cacheCall' = NoCall
    /\ UNCHANGED fe

\* a get_client that hands out a client whatever USING_REDIS says
get_client_AlwaysSome == "Some"

\* get_client: Some(client) exactly when USING_REDIS
get_client == IF USING_REDIS THEN REDIS_CLIENT ELSE "None"

(* ------------------------------- main --------------------------------- *)

\* main.rs:132: the store is created with the defaults; init's locals are gone
CreateStore ==
    /\ mainpc = "init_returned"
    /\ store' = DefaultStore
    /\ lastWrite' = [i \in DefaultIds |-> [by |-> "default",
                                            message |-> DefaultStore[i].message]]
    /\ attempt' = 0
    /\ delays' = 0
    /\ mainpc' = "main_get_client"
    /\ UNCHANGED << configured, REDIS_CLIENT, USING_REDIS, loadKeys, cache, lock,
                    inserted, refreshed >>
    /\ UNCHANGED taskVars
    /\ cacheCall' = NoCall
    /\ UNCHANGED fe

\* main.rs:133: load from Redis only with a client
MainGetClient ==
    /\ mainpc = "main_get_client"
    /\ mainpc' = IF get_client # "None" THEN "load_connect" ELSE "serving"
    /\ UNCHANGED << configured, attempt, delays, REDIS_CLIENT, USING_REDIS,
                    loadKeys, cache, store, lock >>
    /\ UNCHANGED taskVars
    /\ UNCHANGED histVars
    /\ cacheCall' = NoCall
    /\ UNCHANGED fe

(* ------------------- redis_client::load_fortunes ---------------------- *)

\* lines 54-60: client.get_connection(); an error returns from load_fortunes
LoadConnect ==
    /\ mainpc = "load_connect"
    /\ \E ok \in BOOLEAN :
          /\ cacheCall' = Call("connect", ok)
          /\ mainpc' = IF ok THEN "load_hkeys" ELSE "serving"
    /\ UNCHANGED << configured, attempt, delays, REDIS_CLIENT, USING_REDIS,
                    loadKeys, cache, store, lock >>
    /\ UNCHANGED taskVars
    /\ UNCHANGED histVars
    /\ UNCHANGED fe

\* lines 62-67, 90-92: HKEYS fortunes; on Ok the write guard is taken
LoadHkeys ==
    /\ mainpc = "load_hkeys"
    /\ \E ok \in BOOLEAN :
          /\ cacheCall' = Call("HKEYS", ok)
          /\ IF ok
                THEN /\ lock = FreeLock
                     /\ loadKeys' = DOMAIN cache
                     /\ lock' = [writer |-> "main", readers |-> {}]
                     /\ mainpc' = "load_loop"
                ELSE /\ UNCHANGED << loadKeys, lock >>
                     /\ mainpc' = "serving"
    /\ UNCHANGED << configured, attempt, delays, REDIS_CLIENT, USING_REDIS,
                    cache, store >>
    /\ UNCHANGED taskVars
    /\ UNCHANGED histVars
    /\ UNCHANGED fe

\* the store rebuilt from the overlaid entry alone
OverlayInsert_Rebuild(s, key, msg) == (key :> Fortune(key, msg))

\* an overlay that leaves an id already in the store alone
OverlayInsert_KeepDefault(s, key, msg) ==
    IF key \in DOMAIN s THEN s ELSE MapInsert(s, key, Fortune(key, msg))

\* lines 77-81: the fortune built from an HGET reply goes in under its key
OverlayInsert(s, key, msg) == MapInsert(s, key, Fortune(key, msg))

\* lines 69-88: one iteration: HGET fortunes key, then insert or log
LoadHget ==
    /\ mainpc = "load_loop"
    /\ lock.writer = "main"
    /\ \E key \in loadKeys, ok \in BOOLEAN :
          /\ loadKeys' = loadKeys \ {key}
          /\ cacheCall' = Call("HGET", ok)
          /\ IF ok
                THEN /\ store' = OverlayInsert(store, key, cache[key])
                     /\ inserted' = inserted \cup {key}
                     /\ lastWrite' = MapInsert(lastWrite, key,
                                        [by |-> "overlay", message |-> cache[key]])
                ELSE UNCHANGED << store, inserted, lastWrite >>
    /\ UNCHANGED << mainpc, configured, attempt, delays, REDIS_CLIENT,
                    USING_REDIS, cache, lock, refreshed >>
    /\ UNCHANGED taskVars
    /\ UNCHANGED fe

\* lines 88-94: the loop is over, the write guard is dropped
LoadReturn ==
    /\ mainpc = "load_loop"
    /\ loadKeys = {}
    /\ lock' = FreeLock
    /\ mainpc' = "serving"
    /\ UNCHANGED << configured, attempt, delays, REDIS_CLIENT, USING_REDIS,
                    loadKeys, cache, store >>
    /\ UNCHANGED taskVars
    /\ UNCHANGED histVars
    /\ cacheCall' = NoCall
    /\ UNCHANGED fe

(* ------------------------------ routes -------------------------------- *)

Methods == {"GET", "POST", "DELETE"}
Paths == { <<"fortunes">>, <<"other">> } \cup { <<"fortunes", i>> : i \in PathIds }
\* a request body: absent, not the JSON of a Fortune, or the JSON of a Fortune
Bodies == { [kind |-> "none", fortune |-> NoFortune],
            [kind |-> "malformed", fortune |-> NoFortune] }
          \cup { [kind |-> "json", fortune |-> Fortune(i, m)] : i \in NewIds, m \in Msgs }
NoBody == [kind |-> "none", fortune |-> NoFortune]
\* the requests clients send: a GET of any path, a POST of any body to
\* /fortunes, and a method no route takes
Requests ==
    [method : {"GET"}, path : Paths, body : {NoBody}]
    \cup [method : {"POST"}, path : { <<"fortunes">> }, body : Bodies]
    \cup [method : {"DELETE"}, path : { <<"fortunes">> }, body : {NoBody}]

Matched(op, id, fortune) == [op |-> op, id |-> id, fortune |-> fortune, rej |-> None]
Rejected(why) == [op |-> None, id |-> None, fortune |-> NoFortune, rej |-> why]

\* main.rs:140-144  path("fortunes"), end, get
ListFilter(r) ==
    IF r.path # <<"fortunes">> THEN Rejected("NotFound")
    ELSE IF r.method # "GET" THEN Rejected("MethodNotAllowed")
    ELSE Matched("list", None, NoFortune)

\* main.rs:147-152  path("fortunes"), param::<String>(), end, get
GetFilter(r) ==
    IF ~(Len(r.path) = 2 /\ r.path[1] = "fortunes" /\ r.path[2] # "")
       THEN Rejected("NotFound")
    ELSE IF r.method # "GET" THEN Rejected("MethodNotAllowed")
    ELSE Matched("get", r.path[2], NoFortune)

\* main.rs:155-160  path("fortunes"), path("random"), end, get
RandomFilter(r) ==
    IF r.path # <<"fortunes", "random">> THEN Rejected("NotFound")
    ELSE IF r.method # "GET" THEN Rejected("MethodNotAllowed")
    ELSE Matched("random", None, NoFortune)

\* main.rs:163-168  path("fortunes"), end, post, body::json()
CreateFilter(r) ==
    IF r.path # <<"fortunes">> THEN Rejected("NotFound")
    ELSE IF r.method # "POST" THEN Rejected("MethodNotAllowed")
    ELSE IF r.body.kind # "json" THEN Rejected("BodyDeserializeError")
    ELSE Matched("create", r.body.fortune.id, r.body.fortune)

\* main.rs:170-173  list.or(get).or(random).or(create): the filters in this order
RouteOrder(r) == << ListFilter(r), GetFilter(r), RandomFilter(r), CreateFilter(r) >>

\* Rejection::is_not_found of the combined rejection: every branch said NotFound
IsNotFound(tried) == \A k \in DOMAIN tried : tried[k].rej = "NotFound"

\* main.rs:112-124  handle_rejection
handle_rejection(tried) ==
    IF IsNotFound(tried)
       THEN [status |-> 404, text |-> "not found"]
       ELSE [status |-> 500, text |-> "internal server error"]

\* the first filter of the chain that matches, or the rejections of all of them
Route(r) ==
    LET tried == RouteOrder(r)
        hits == { k \in DOMAIN tried : tried[k].rej = None }
    IN  IF hits = {}
           THEN [op |-> "reject", id |-> None, fortune |-> NoFortune, tried |-> tried]
           ELSE LET k == CHOOSE j \in hits : \A h \in hits : j <= h
                IN  [op |-> tried[k].op, id |-> tried[k].id,
                     fortune |-> tried[k].fortune, tried |-> tried]

Response(q, status, body, entries, text, source) ==
    [op |-> q.op, id |-> q.id, fortune |-> q.fortune, viaRandom |-> q.viaRandom,
     method |-> q.method, path |-> q.path, status |-> status, body |-> body,
     entries |-> entries, text |-> text, source |-> source]

(* ----------------------------- requests ------------------------------- *)

\* tasks are interchangeable: new work goes to the first task that is free
FirstIdle(t) == pc[t] = "idle" /\ \A u \in Tasks : u < t => pc[u] # "idle"

\* warp::serve(routes): a request arrives and the filter chain picks its handler
Receive(t) ==
    /\ mainpc = "serving"
    /\ FirstIdle(t)
    /\ nreq < MaxRequests
    /\ nreq' = nreq + 1
    /\ \E r \in Requests :
          LET h == Route(r)
              q == [op |-> h.op, id |-> h.id, fortune |-> h.fortune,
                    viaRandom |-> FALSE, method |-> r.method, path |-> r.path]
          IN  IF h.op = "reject"
                 THEN /\ lastResp' = Response(q, handle_rejection(h.tried).status,
                                              NoFortune, EmptyBag,
                                              handle_rejection(h.tried).text, "rejection")
                      /\ UNCHANGED << pc, req >>
                 ELSE /\ pc' = [pc EXCEPT ![t] = h.op]
                      /\ req' = [req EXCEPT ![t] = q]
                      /\ lastResp' = NoResp
    /\ UNCHANGED << cache, store, lock >>
    /\ UNCHANGED startupVars
    /\ UNCHANGED histVars
    /\ cacheCall' = NoCall
    /\ UNCHANGED fe

\* the random operation of the service, called as a function
CallRandom(t) ==
    /\ mainpc = "serving"
    /\ FirstIdle(t)
    /\ nreq < MaxRequests
    /\ nreq' = nreq + 1
    /\ pc' = [pc EXCEPT ![t] = "random"]
    /\ req' = [req EXCEPT ![t] = [NoReq EXCEPT !.op = "random"]]
    /\ lastResp' = NoResp
    /\ UNCHANGED << cache, store, lock >>
    /\ UNCHANGED startupVars
    /\ UNCHANGED histVars
    /\ cacheCall' = NoCall
    /\ UNCHANGED fe

(* ----------------------- redis point operations ----------------------- *)

\* redis_client.rs:96-102  get_connection()? then HGET fortunes key as a String;
\* a missing field (nil) does not convert and is an error like any other
redis_get_fortune(c, key, up) ==
    IF up /\ key \in DOMAIN c
       THEN [ok |-> TRUE, message |-> c[key]]
       ELSE [ok |-> FALSE, message |-> None]

\* redis_client.rs:104-111  get_connection()? then HSET fortunes key message
redis_set_fortune(c, key, message, up) ==
    IF up THEN [ok |-> TRUE, cache |-> MapInsert(c, key, message)]
          ELSE [ok |-> FALSE, cache |-> c]

(* ------------------------------ handlers ------------------------------ *)

\* main.rs:47  fortunes.values().cloned().collect(): the values, in no order
ValuesBag(s) ==
    LET vals == { s[k] : k \in DOMAIN s }
    IN  [v \in vals |-> Cardinality({ k \in DOMAIN s : s[k] = v })]

\* a list that asks the cache when there is a client, and the store otherwise
list_fortunes_FromCache(t) ==
    /\ pc[t] = "list"
    /\ lock.writer = None
    /\ IF get_client = "None"
          THEN /\ cacheCall' = NoCall
               /\ lastResp' = Response(req[t], 200, NoFortune, ValuesBag(store),
                                       None, "store")
          ELSE /\ cacheCall' = Call("HKEYS", TRUE)
               /\ lastResp' = Response(req[t], 200, NoFortune,
                                       ValuesBag([k \in DOMAIN cache |->
                                                    Fortune(k, cache[k])]),
                                       None, "cache")
    /\ pc' = [pc EXCEPT ![t] = "idle"]
    /\ req' = [req EXCEPT ![t] = NoReq]
    /\ UNCHANGED << nreq, cache, store, lock >>
    /\ UNCHANGED startupVars
    /\ UNCHANGED histVars
    /\ UNCHANGED fe

\* main.rs:45-49  list_fortunes
list_fortunes(t) ==
    /\ pc[t] = "list"
    /\ lock.writer = None
    /\ lastResp' = Response(req[t], 200, NoFortune, ValuesBag(store), None, "store")
    /\ pc' = [pc EXCEPT ![t] = "idle"]
    /\ req' = [req EXCEPT ![t] = NoReq]
    /\ UNCHANGED << nreq, cache, store, lock >>
    /\ UNCHANGED startupVars
    /\ UNCHANGED histVars
    /\ cacheCall' = NoCall
    /\ UNCHANGED fe

\* a cache hit whose fortune has id and message the wrong way round
HitFortune_Swapped(id, message) == Fortune(message, id)

\* main.rs:55  the fortune built from a cache hit
HitFortune(id, message) == Fortune(id, message)

\* a failed lookup taken as the loss of the cache: the handle is downgraded
GetCache_Downgrade(t) ==
    /\ pc[t] = "get"
    /\ IF get_client = "None"
          THEN /\ pc' = [pc EXCEPT ![t] = "get_read"]
               /\ cacheCall' = NoCall
               /\ UNCHANGED << req, USING_REDIS >>
          ELSE \E up \in BOOLEAN :
                  LET got == redis_get_fortune(cache, req[t].id, up)
                  IN  /\ cacheCall' = Call("HGET", up)
                      /\ IF got.ok
                         THEN /\ pc' = [pc EXCEPT ![t] = "get_insert"]
                              /\ req' = [req EXCEPT ![t].fortune =
                                            HitFortune(req[t].id, got.message)]
                              /\ UNCHANGED USING_REDIS
                         ELSE /\ pc' = [pc EXCEPT ![t] = "get_read"]
                              /\ USING_REDIS' = FALSE
                              /\ UNCHANGED req
    /\ lastResp' = NoResp
    /\ UNCHANGED << nreq, cache, store, lock >>
    /\ UNCHANGED << mainpc, configured, attempt, delays, REDIS_CLIENT, loadKeys >>
    /\ UNCHANGED histVars
    /\ UNCHANGED fe

\* main.rs:53-54  get_client, then the cache lookup when there is a client
GetCache(t) ==
    /\ pc[t] = "get"
    /\ IF get_client = "None"
          THEN /\ pc' = [pc EXCEPT ![t] = "get_read"]
               /\ cacheCall' = NoCall
               /\ UNCHANGED req
          ELSE \E up \in BOOLEAN :
                  LET got == redis_get_fortune(cache, req[t].id, up)
                  IN  /\ cacheCall' = Call("HGET", up)
                      /\ IF got.ok
                         THEN /\ pc' = [pc EXCEPT ![t] = "get_insert"]
                              /\ req' = [req EXCEPT ![t].fortune =
                                            HitFortune(req[t].id, got.message)]
                         ELSE /\ pc' = [pc EXCEPT ![t] = "get_read"]
                              /\ UNCHANGED req
    /\ lastResp' = NoResp
    /\ UNCHANGED << nreq, cache, store, lock >>
    /\ UNCHANGED startupVars
    /\ UNCHANGED histVars
    /\ UNCHANGED fe

\* the write-back forgotten: the hit is returned and the store left as it was
HitCommit_NoWriteBack(s, id, fortune) == s

\* main.rs:57  store.write().await.insert(id.clone(), fortune.clone())
HitCommit(s, id, fortune) == MapInsert(s, id, fortune)

\* main.rs:55-61  the hit is written back under the write guard and returned.
\* The reply is built from the handler's own copy of the fortune and reads
\* nothing shared, so it belongs to the step of the insert.
GetInsert(t) ==
    /\ pc[t] = "get_insert"
    /\ lock = FreeLock
    /\ store' = HitCommit(store, req[t].id, req[t].fortune)
    /\ refreshed' = refreshed \cup {req[t].id}
    /\ lastWrite' = MapInsert(lastWrite, req[t].id,
                              [by |-> "hit", message |-> req[t].fortune.message])
    /\ lastResp' = Response(req[t], 200, req[t].fortune, EmptyBag, None, "cache")
    /\ pc' = [pc EXCEPT ![t] = "idle"]
    /\ req' = [req EXCEPT ![t] = NoReq]
    /\ UNCHANGED << nreq, cache, lock, inserted >>
    /\ UNCHANGED startupVars
    /\ cacheCall' = NoCall
    /\ UNCHANGED fe

\* the fallback answering not-found whatever the store holds
StoreLookup_AlwaysMissing(s, id) ==
    [status |-> 404, body |-> NoFortune, text |-> "fortune not found"]

\* main.rs:65-75  the reply of the fallback, built under the read guard
StoreLookup(s, id) ==
    IF id \in DOMAIN s
       THEN [status |-> 200, body |-> s[id], text |-> None]
       ELSE [status |-> 404, body |-> NoFortune, text |-> "fortune not found"]

\* main.rs:65-75  fall back to the store
GetRead(t) ==
    /\ pc[t] = "get_read"
    /\ lock.writer = None
    /\ lastResp' = Response(req[t], StoreLookup(store, req[t].id).status,
                            StoreLookup(store, req[t].id).body, EmptyBag,
                            StoreLookup(store, req[t].id).text, "store")
    /\ pc' = [pc EXCEPT ![t] = "idle"]
    /\ req' = [req EXCEPT ![t] = NoReq]
    /\ UNCHANGED << nreq, cache, store, lock >>
    /\ UNCHANGED startupVars
    /\ UNCHANGED histVars
    /\ cacheCall' = NoCall
    /\ UNCHANGED fe

\* the emptiness test inverted: the sentinel id whenever the store has entries
RandomCandidates_Inverted(s) ==
    IF DOMAIN s # {} THEN {"zero"} ELSE { s[k].id : k \in DOMAIN s }

\* main.rs:80-94  the ids fortunes_vec[random_index].id can be, or "zero"
RandomCandidates(s) ==
    IF DOMAIN s = {} THEN {"zero"} ELSE { s[k].id : k \in DOMAIN s }

\* a random_fortune without the drop at line 95: the read guard stays held
random_fortune_KeepsGuard(t) ==
    /\ pc[t] = "random"
    /\ lock.writer = None
    /\ \E id \in RandomCandidates(store) :
          req' = [req EXCEPT ![t].id = id, ![t].viaRandom = TRUE]
    /\ pc' = [pc EXCEPT ![t] = "get"]
    /\ lock' = [lock EXCEPT !.readers = @ \cup {t}]
    /\ lastResp' = NoResp
    /\ UNCHANGED << nreq, cache, store >>
    /\ UNCHANGED startupVars
    /\ UNCHANGED histVars
    /\ cacheCall' = NoCall
    /\ UNCHANGED fe

\* main.rs:78-97  random_fortune: pick under the read guard, drop it, call get
random_fortune(t) ==
    /\ pc[t] = "random"
    /\ lock.writer = None
    /\ \E id \in RandomCandidates(store) :
          req' = [req EXCEPT ![t].id = id, ![t].viaRandom = TRUE]
    /\ pc' = [pc EXCEPT ![t] = "get"]
    /\ lastResp' = NoResp
    /\ UNCHANGED << nreq, cache, store, lock >>
    /\ UNCHANGED startupVars
    /\ UNCHANGED histVars
    /\ cacheCall' = NoCall
    /\ UNCHANGED fe

\* main.rs:102-106  best-effort HSET when there is a client; an error is logged
CreateCache(t) ==
    /\ pc[t] = "create"
    /\ IF get_client = "None"
          THEN UNCHANGED cache /\ cacheCall' = NoCall
          ELSE \E up \in BOOLEAN :
                  /\ cacheCall' = Call("HSET", up)
                  /\ cache' = redis_set_fortune(cache, req[t].fortune.id,
                                                req[t].fortune.message, up).cache
    /\ pc' = [pc EXCEPT ![t] = "create_insert"]
    /\ lastResp' = NoResp
    /\ UNCHANGED << req, nreq, store, lock >>
    /\ UNCHANGED startupVars
    /\ UNCHANGED histVars
    /\ UNCHANGED fe

\* insert-if-absent in place of insert-or-replace
CreateCommit_KeepOld(s, fortune) ==
    IF fortune.id \in DOMAIN s THEN s ELSE MapInsert(s, fortune.id, fortune)

\* the new entry dropped when it is a new key
CreateCommit_ReplaceOnly(s, fortune) ==
    IF fortune.id \in DOMAIN s THEN MapInsert(s, fortune.id, fortune) ELSE s

\* main.rs:108  store.write().await.insert(fortune.id.clone(), fortune.clone())
CreateCommit(s, fortune) == MapInsert(s, fortune.id, fortune)

\* main.rs:108-109  insert under the write guard and answer with the fortune.
\* The reply is built from the handler's own copy of the fortune and reads
\* nothing shared, so it belongs to the step of the insert.
CreateInsert(t) ==
    /\ pc[t] = "create_insert"
    /\ lock = FreeLock
    /\ store' = CreateCommit(store, req[t].fortune)
    /\ inserted' = inserted \cup {req[t].fortune.id}
    /\ lastWrite' = MapInsert(lastWrite, req[t].fortune.id,
                              [by |-> "create", message |-> req[t].fortune.message])
    /\ lastResp' = Response(req[t], 200, req[t].fortune, EmptyBag, None, "create")
    /\ pc' = [pc EXCEPT ![t] = "idle"]
    /\ req' = [req EXCEPT ![t] = NoReq]
    /\ UNCHANGED << nreq, cache, lock, refreshed >>
    /\ UNCHANGED startupVars
    /\ cacheCall' = NoCall
    /\ UNCHANGED fe

(* --------------------------- specification ---------------------------- *)

Startup ==
    \/ InitEnv \/ InitAttempt \/ InitSleep \/ InitExhausted
    \/ CreateStore \/ MainGetClient
    \/ LoadConnect \/ LoadHkeys \/ LoadHget \/ LoadReturn

Serve(t) ==
    \/ Receive(t) \/ CallRandom(t)
    \/ list_fortunes(t)
    \/ GetCache(t) \/ GetInsert(t) \/ GetRead(t)
    \/ random_fortune(t)
    \/ CreateCache(t) \/ CreateInsert(t)

Next == Startup \/ \E t \in Tasks : Serve(t)

Spec == Init /\ [][Next]_vars

\* the program run with REDIS_DNS set against a Redis where every call goes
\* through: the connection, and every HKEYS, HGET and HSET
InitCacheUp == Init /\ configured

NextCacheUp == Next /\ cacheCall'.ok

SpecCacheUp == InitCacheUp /\ [][NextCacheUp]_vars

\* the steps of the handler that task t runs
Handle(t) ==
    \/ list_fortunes(t)
    \/ GetCache(t) \/ GetInsert(t) \/ GetRead(t)
    \/ random_fortune(t)
    \/ CreateCache(t) \/ CreateInsert(t)

\* the runtime keeps polling every task that can go on: a cache call returns,
\* and the Store lock (tokio's RwLock, fair) is granted to whoever waits for it
FairSpec == Spec /\ \A t \in Tasks : WF_vars(Handle(t))

(* ------------------------------ claims -------------------------------- *)

\* task t takes the step that leaves position a for position b
Moves(t, a, b) == pc[t] = a /\ pc'[t] = b

\* C1, the hit: a get goes to the write-back only with the handle Connected and
\* the cache holding a message m for its id, and the write-back answers 200
\* with {id, m} and leaves Store[id] = {id, m}
C1_Hit(t) ==
    /\ Moves(t, "get", "get_insert") =>
          /\ USING_REDIS
          /\ req[t].id \in DOMAIN cache
          /\ req'[t].fortune = [id |-> req[t].id, message |-> cache[req[t].id]]
    /\ Moves(t, "get_insert", "idle") =>
          /\ lastResp'.status = 200
          /\ lastResp'.body = req[t].fortune
          /\ lastResp'.body.id = req[t].id
          /\ req[t].id \in DOMAIN store'
          /\ store'[req[t].id] = req[t].fortune

\* C1, the later get: when the last write of Store[id] was a cache hit with m,
\* a get(id) whose cache lookup fails answers 200 with {id, m}
C1_Later(t) ==
    ( /\ Moves(t, "get_read", "idle")
      /\ req[t].id \in DOMAIN lastWrite
      /\ lastWrite[req[t].id].by = "hit" ) =>
          /\ lastResp'.status = 200
          /\ lastResp'.body = [id |-> req[t].id,
                               message |-> lastWrite[req[t].id].message]

\* C1: a get that hits the cache with m returns {id, m} and stores it, and a
\* later get(id) whose lookup fails, with no create or hit for id in between,
\* returns the same {id, m} from the Store
C1_GetHitThenFallback == [][\A t \in Tasks : C1_Hit(t) /\ C1_Later(t)]_vars

\* C1 witness: with the handle Connected, a get just answered from the Store
\* an entry that an earlier get wrote back from the cache
C1_Witness ==
    /\ USING_REDIS
    /\ lastResp.op = "get" /\ ~lastResp.viaRandom
    /\ lastResp.source = "store"
    /\ lastResp.status = 200
    /\ lastResp.id \in refreshed
    /\ lastWrite[lastResp.id].by = "hit"

\* what the fallback has to answer for id on store s
C2_Expected(resp, s, id) ==
    IF id \in DOMAIN s
       THEN resp.status = 200 /\ resp.body = s[id] /\ resp.text = None
       ELSE resp.status = 404 /\ resp.body = NoFortune
            /\ resp.text = "fortune not found"

\* C2: with the handle Unavailable, or on any error of the cache lookup (a
\* missing field included), get answers with the Store's current entry for
\* the id, or 404 if there is none, and leaves the Store unchanged
C2_GetFallback ==
    [][\A t \in Tasks :
          /\ (Moves(t, "get", pc'[t]) /\ pc'[t] # "get") =>
                /\ store' = store
                /\ (~USING_REDIS \/ req[t].id \notin DOMAIN cache)
                      => pc'[t] = "get_read"
                /\ pc'[t] \in {"get_read", "get_insert"}
          /\ Moves(t, "get_read", "idle") =>
                /\ store' = store
                /\ C2_Expected(lastResp', store, req[t].id)]_vars

\* C2 witness: the handle is Connected, the cache has no field for the id,
\* the Store has no entry either, and the get answered 404
C2_Witness ==
    /\ USING_REDIS
    /\ lastResp.op = "get"
    /\ lastResp.source = "store"
    /\ lastResp.status = 404
    /\ lastResp.id \notin DOMAIN cache
    /\ lastResp.id \notin DOMAIN store

\* C3: create(f) answers 200 with f and Store[f.id] = f when it completes,
\* whether there is no handle, the HSET succeeded or the HSET failed; nothing
\* of the HSET's outcome reaches the caller
C3_CreateAlwaysStores ==
    [][\A t \in Tasks :
          /\ (Moves(t, "create", pc'[t]) /\ pc'[t] # "create") =>
                /\ pc'[t] = "create_insert"
                /\ req'[t] = req[t]
                /\ lastResp' = NoResp
          /\ Moves(t, "create_insert", "idle") =>
                /\ lastResp'.status = 200
                /\ lastResp'.body = req[t].fortune
                /\ req[t].fortune.id \in DOMAIN store'
                /\ store'[req[t].fortune.id] = req[t].fortune]_vars

\* C3 witness: a create completed although its HSET had failed: the Store has
\* the fortune and the cache does not
C3_Witness ==
    /\ USING_REDIS
    /\ lastResp.source = "create"
    /\ lastResp.status = 200
    /\ store[lastResp.body.id] = lastResp.body
    /\ lastResp.body.id \notin DOMAIN cache

\* C4: with the cache disabled, a get(id) answers exactly the fortune of the
\* last create for id, and 404 for an id nothing ever inserted
C4_CreateThenGet ==
    [][\A t \in Tasks :
          ~USING_REDIS =>
             /\ (Moves(t, "get", pc'[t]) /\ pc'[t] # "get") => pc'[t] = "get_read"
             /\ ( /\ Moves(t, "get_read", "idle")
                  /\ req[t].id \in DOMAIN lastWrite
                  /\ lastWrite[req[t].id].by = "create" ) =>
                    /\ lastResp'.status = 200
                    /\ lastResp'.body = [id |-> req[t].id,
                                         message |-> lastWrite[req[t].id].message]
             /\ ( /\ Moves(t, "get_read", "idle")
                  /\ req[t].id \notin {"1", "2", "3", "4"} \cup inserted ) =>
                    /\ lastResp'.status = 404
                    /\ lastResp'.text = "fortune not found"]_vars

\* C4 witness: cache disabled, a get just answered 200 with a created fortune
C4_Witness ==
    /\ ~USING_REDIS
    /\ lastResp.op = "get" /\ ~lastResp.viaRandom
    /\ lastResp.status = 200
    /\ lastResp.id \in inserted
    /\ lastWrite[lastResp.id].by = "create"
    /\ lastResp.body.message \in Msgs

\* the number of entries a list() of the store returns
ListLength == BagCardinality(ValuesBag(store))

\* C5 as stated: the number of entries list() returns is the number of
\* distinct ids inserted by the defaults, the startup overlay and create
C5_ListCountsDefaultsOverlayCreates ==
    store # EmptyMap => ListLength = Cardinality({"1", "2", "3", "4"} \cup inserted)

\* C5 amended: the number of entries list() returns is the number of distinct
\* ids inserted by the defaults, the startup overlay, create and the
\* write-back of a get cache hit, an overwritten id counted once
C5_ListCountsAllInserts ==
    /\ store # EmptyMap =>
          ListLength = Cardinality({"1", "2", "3", "4"} \cup inserted \cup refreshed)
    /\ lastResp.op = "list" =>
          BagCardinality(lastResp.entries) =
             Cardinality({"1", "2", "3", "4"} \cup inserted \cup refreshed)

\* C5 witness: a list answered after a cache hit had inserted an id that the
\* defaults, the overlay and create never inserted
C5_Witness ==
    /\ lastResp.op = "list"
    /\ refreshed \ ({"1", "2", "3", "4"} \cup inserted) # {}
    /\ BagCardinality(lastResp.entries) = 5

\* the program is past create_default_store
Seeded == mainpc \notin {"init", "init_attempt", "init_sleep", "init_exhausted",
                         "init_returned"}

\* C6: the key set of the Store never shrinks; once seeded it holds "1".."4";
\* a default's message differs from the seeded one only after an overlay, a
\* create or a cache hit for that id; with the cache disabled a get of an id
\* only the defaults hold answers the default
C6_DefaultsStay ==
    /\ [](Seeded =>
            /\ {"1", "2", "3", "4"} \subseteq DOMAIN store
            /\ \A i \in {"1", "2", "3", "4"} :
                  store[i] # DefaultStore[i] => i \in inserted \cup refreshed)
    /\ [][/\ DOMAIN store \subseteq DOMAIN store'
          /\ \A t \in Tasks :
                ( /\ ~USING_REDIS
                  /\ Moves(t, "get_read", "idle")
                  /\ req[t].id \in {"1", "2", "3", "4"} \ inserted ) =>
                      /\ lastResp'.status = 200
                      /\ lastResp'.body = DefaultStore[req[t].id]]_vars

\* C6 witness: cache disabled, another id was created, and a get of an
\* untouched default answered the seeded fortune
C6_Witness ==
    /\ ~USING_REDIS
    /\ inserted # {}
    /\ lastResp.op = "get" /\ ~lastResp.viaRandom
    /\ lastResp.id \in {"1", "2", "3", "4"} \ inserted
    /\ lastResp.body = DefaultStore[lastResp.id]

\* C7: a random() never answers not-found: the id it selects is a key of the
\* Store when it selects, and its answer has that id and the message the
\* Store holds for that id when the answer is produced
C7_RandomAnswersAnEntry ==
    /\ [](lastResp.viaRandom =>
            /\ lastResp.status = 200
            /\ lastResp.body.id = lastResp.id
            /\ lastResp.id \in DOMAIN store
            /\ store[lastResp.id] = lastResp.body)
    /\ [][\A t \in Tasks :
            Moves(t, "random", "get") =>
               /\ req'[t].id \in DOMAIN store
               /\ req'[t].viaRandom]_vars

\* C7 witness: a random() answered a posted message while a create of another
\* request was in flight
C7_Witness ==
    /\ lastResp.viaRandom
    /\ lastResp.status = 200
    /\ lastResp.body.message \in Msgs
    /\ \E u \in Tasks : pc[u] \in {"create", "create_insert"}

\* C8 as stated: GET /fortunes/random is served by the random operation and,
\* the Store having entries, answers 200
C8_RandomRouteServesRandom ==
    (lastResp.method = "GET" /\ lastResp.path = <<"fortunes", "random">>) =>
        /\ lastResp.viaRandom
        /\ lastResp.status = 200

\* init has not returned yet
InInit == mainpc \in {"init", "init_attempt", "init_sleep", "init_exhausted"}

\* how far init has got: it grows with every step of init and is at most 19
InitRank ==
    CASE mainpc = "init"           -> 0
      [] mainpc = "init_attempt"   -> 3 * attempt + 1
      [] mainpc = "init_sleep"     -> 3 * attempt + 2
      [] mainpc = "init_exhausted" -> 3 * attempt + 3
      [] OTHER                     -> 19

\* C9: init terminates: every step of it is followed by another until it
\* returns, and each one gets nearer to the return; without an address it
\* returns Unavailable after no attempt; otherwise it makes at most 5 attempts,
\* returns Connected at the first that succeeds, and returns Unavailable
\* exactly when all 5 failed
C9_InitTerminates ==
    /\ [](/\ attempt <= 5
          /\ InitRank <= 19
          /\ InInit => ENABLED (InitEnv \/ InitAttempt \/ InitSleep \/ InitExhausted)
          /\ mainpc = "init_returned" =>
                IF ~configured
                   THEN attempt = 0 /\ delays = 0 /\ ~USING_REDIS
                   ELSE /\ attempt \in 1..5
                        /\ USING_REDIS => (delays = attempt - 1 /\ REDIS_CLIENT = "Some")
                        /\ ~USING_REDIS <=> (attempt = 5 /\ delays = 5))
    /\ [][/\ InInit => InitRank' > InitRank
          /\ (mainpc = "init_attempt" /\ USING_REDIS') => mainpc' = "init_returned"
          /\ (mainpc = "init_attempt" /\ mainpc' = "init_returned") => USING_REDIS'
          /\ (mainpc = "init" /\ ~configured) => mainpc' = "init_returned"]_vars

\* C9 witness: an address is configured, all five attempts failed, and init
\* returned Unavailable
C9_Witness ==
    /\ mainpc = "init_returned"
    /\ configured
    /\ ~USING_REDIS
    /\ attempt = 5

\* C10: once init has returned nothing writes the handle: USING_REDIS and
\* REDIS_CLIENT keep their values and get_client keeps its answer
C10_HandleIsTerminal ==
    [][~InInit =>
          /\ USING_REDIS' = USING_REDIS
          /\ REDIS_CLIENT' = REDIS_CLIENT
          /\ get_client' = get_client]_vars

\* C10 witness: the handle is Connected and a get whose lookup failed on a
\* field the cache holds has just been answered from the Store
C10_Witness ==
    /\ USING_REDIS
    /\ mainpc = "serving"
    /\ lastResp.op = "get"
    /\ lastResp.source = "store"
    /\ lastResp.id \in DOMAIN cache

\* -------------------------------------------------------------------------
\* C11  No step that makes a Redis call (connection, HKEYS, HGET or HSET) is
\*      taken while the Store lock is held, by a reader or by a writer: the
\*      lock is held for a single map read or write only, in the handlers
\*      and in the startup overlay alike.
\*      load_fortunes takes the write guard at redis_client.rs:67 and issues
\*      one HGET per key under it (lines 69-73), so this does not hold.
C11_NoLockAcrossCacheCall ==
    [][cacheCall'.op # None => lock = FreeLock]_vars

\* -------------------------------------------------------------------------
\* C12  Startup overlay.  With the handle Connected, every id the listing
\*      returned and whose value was read has, when startup is over, the
\*      cache's message in the Store, an id of a default included; a failed
\*      connection or listing leaves the Store as the defaults, a failed
\*      read leaves that id as it was (its default, or absent); and startup
\*      always goes on to serve.
C12_AfterStartup ==
    (mainpc = "serving" /\ nreq = 0) =>
        /\ DOMAIN store = DefaultIds \cup inserted
        /\ \A id \in inserted :
              id \in DOMAIN cache /\ store[id] = Fortune(id, cache[id])
        /\ \A id \in DefaultIds \ inserted : store[id] = DefaultStore[id]

C12_LoadStep ==
    /\ (mainpc \in {"load_connect", "load_hkeys"} /\ ~cacheCall'.ok) =>
          mainpc' = "serving" /\ store' = store
    /\ (mainpc = "load_loop" /\ cacheCall'.op = "HGET") =>
          IF cacheCall'.ok
             THEN \E key \in loadKeys \ loadKeys' :
                     store' = MapInsert(store, key, Fortune(key, cache[key]))
             ELSE store' = store

C12_OverlayTakesCacheValues ==
    /\ [](C12_AfterStartup)
    /\ [](mainpc \in {"load_connect", "load_hkeys", "load_loop"} => ENABLED Startup)
    /\ [][C12_LoadStep]_vars

\* C12 witness: serving starts after an overlay that replaced the default "1"
\* by the cache's message and failed to read "5", which stays absent
C12_Witness ==
    /\ mainpc = "serving"
    /\ nreq = 0
    /\ USING_REDIS
    /\ "1" \in inserted
    /\ store["1"].message = cache["1"]
    /\ store["1"] # DefaultStore["1"]
    /\ "5" \in DOMAIN cache
    /\ "5" \notin DOMAIN store

\* -------------------------------------------------------------------------
\* C13  A POST /fortunes whose body is not the JSON of a Fortune is answered
\*      with a client error (4xx), and the step leaves the Store and the
\*      cache as they were.
\*      The body filter's rejection is not a not-found, so handle_rejection
\*      (main.rs:112-124) answers it 500: this does not hold.
C13_MalformedBodyIsClientError ==
    [][( /\ lastResp'.source = "rejection"
         /\ lastResp'.method = "POST"
         /\ lastResp'.path = <<"fortunes">> ) =>
            /\ lastResp'.status \in 400..499
            /\ store' = store
            /\ cache' = cache]_vars

\* -------------------------------------------------------------------------
\* C17  Every Store entry is kept under its own id: Store[k].id = k for every
\*      key k, whether the entry is a default, comes from the startup
\*      overlay, from a create or from the write-back of a cache hit.
C17_KeyedByOwnId ==
    \A k \in DOMAIN store : store[k].id = k

\* C17 witness: the Store holds a default, an entry written by the overlay and
\*      one written by a create, and a cache hit has written an entry too
C17_Witness ==
    /\ \E k \in DOMAIN lastWrite : lastWrite[k].by = "default"
    /\ \E k \in DOMAIN lastWrite : lastWrite[k].by = "overlay"
    /\ \E k \in DOMAIN lastWrite : lastWrite[k].by = "create"
    /\ refreshed # {}
    /\ DOMAIN lastWrite = DOMAIN store

\* -------------------------------------------------------------------------
\* C19  During connect the fixed delay is taken only between two consecutive
\*      attempts: attempt n is made after exactly n - 1 delays, and when the
\*      5th attempt has failed init reports exhaustion after 4 delays, with
\*      no further delay.
\*      The sleep at redis_client.rs:37 closes every failed round of the
\*      loop, the 5th included, so exhaustion is reported after 5 delays:
\*      this does not hold.
C19_DelayOnlyBetweenAttempts ==
    /\ mainpc = "init_attempt" => delays = attempt - 1
    /\ mainpc = "init_exhausted" => (attempt = MaxAttempts /\ delays = MaxAttempts - 1)

\* -------------------------------------------------------------------------
\* C14  list makes no cache call and changes neither the Store, the cache nor
\*      the handle: it answers 200 with exactly the entries the Store holds
\*      when it reads it, one per key, whatever the handle and the cache are.
C14_ListReadsStoreOnly ==
    [][\A t \in Tasks :
          Moves(t, "list", "idle") =>
             /\ cacheCall'.op = None
             /\ store' = store /\ cache' = cache
             /\ USING_REDIS' = USING_REDIS /\ REDIS_CLIENT' = REDIS_CLIENT
             /\ lastResp'.op = "list"
             /\ lastResp'.status = 200
             /\ BagToSet(lastResp'.entries) = { store[k] : k \in DOMAIN store }
             /\ BagCardinality(lastResp'.entries) = Cardinality(DOMAIN store)]_vars

\* C14 witness: a list answered with the handle Connected while the cache
\*      holds, for some id, a message the Store does not hold
C14_Witness ==
    /\ lastResp.op = "list"
    /\ lastResp.status = 200
    /\ USING_REDIS
    /\ \E id \in DOMAIN cache :
          id \notin DOMAIN store \/ store[id].message # cache[id]

\* -------------------------------------------------------------------------
\* C18  With the handle Unavailable no request makes a cache call (get, set
\*      or connect) and the cache stays as it is, and the Store is changed by
\*      create only: get, random and list leave it unchanged.
C18_UnavailableMeansStoreOnly ==
    [][(mainpc = "serving" /\ ~USING_REDIS) =>
          /\ cacheCall'.op = None
          /\ cache' = cache
          /\ ~USING_REDIS'
          /\ store' # store => \E t \in Tasks : Moves(t, "create_insert", "idle")
          /\ \A t \in Tasks :
                (pc[t] \in {"get", "get_read", "random", "list"} /\ pc'[t] # pc[t])
                   => store' = store]_vars

\* C18 witness: an address was configured and the cache holds "5", but the
\*      handle is Unavailable: a create has stored an entry and a get of "5"
\*      was answered from the Store
C18_Witness ==
    /\ configured
    /\ ~USING_REDIS
    /\ inserted # {}
    /\ lastResp.op = "get"
    /\ lastResp.source = "store"
    /\ lastResp.id = "5"
    /\ "5" \in DOMAIN cache

\* -------------------------------------------------------------------------
\* C16  Every list, get, random or create request that a handler has taken
\*      up is eventually answered, under every interleaving, given that
\*      cache calls return and the Store lock is granted fairly: a handler
\*      holds no guard between two of its steps (random drops its read guard
\*      before it calls get), so none waits for a lock it holds itself, and
\*      the step that ends a handler is the one that sends its response.
C16_RequestsComplete ==
    /\ [](mainpc = "serving" => lock = FreeLock)
    /\ [](\A t \in Tasks : pc[t] # "idle" => ENABLED Handle(t))
    /\ [][\A t \in Tasks :
             (pc[t] # "idle" /\ pc'[t] = "idle") =>
                (lastResp'.op = req[t].op /\ lastResp'.status \in {200, 201, 404})]_vars
    /\ \A t \in Tasks : (pc[t] # "idle") ~> (pc[t] = "idle")

\* C16 witness: a random request was answered by the write-back of a cache
\*      hit while the other task had a request of its own in flight
C16_Witness ==
    /\ lastResp.viaRandom
    /\ lastResp.source = "cache"
    /\ \E t \in Tasks : pc[t] # "idle"

\* -------------------------------------------------------------------------
\* C15  With the cache Connected and every cache call succeeding, whenever no
\*      get and no create for an id is in flight, the Store's message for
\*      that id is the cache's message for it, under every interleaving of
\*      the gets and creates for that id.
\*      get_fortune writes back the message it read (main.rs:54-57) without
\*      looking at the cache again, and create_fortune sets the cache and
\*      the Store in two steps (main.rs:102-108): a get that read before a
\*      create and writes after it, or two creates that cross, leave the
\*      Store with a message the cache no longer holds.  This does not hold.
C15_StoreFollowsCache ==
    (mainpc = "serving" /\ USING_REDIS) =>
        \A id \in DOMAIN cache :
           (\A t \in Tasks :
               /\ pc[t] # "random"
               /\ pc[t] \in {"get", "get_insert", "get_read"} => req[t].id # id
               /\ pc[t] \in {"create", "create_insert"} => req[t].fortune.id # id)
           => (id \in DOMAIN store /\ store[id].message = cache[id])

(* ----------------------------- frontend ------------------------------- *)
\* src/frontend/src/main.rs: the frontend is a process of its own; it reaches
\* the backend over HTTP only, and a call to it either gets a reply or fails

backendVars == << mainpc, configured, attempt, delays, REDIS_CLIENT, USING_REDIS,
                  cache, store, lock, loadKeys, pc, req, nreq, lastResp,
                  inserted, refreshed, lastWrite, cacheCall >>

FeMethods == {"GET", "HEAD", "POST", "PUT", "DELETE"}
\* "index.html" is a file of ./static, "missing.css" is not
FePaths == { <<"healthz">>, <<"healthz", "live">>, <<"api", "random">>,
             <<"api", "all">>, <<"api", "add">>, <<"index.html">>,
             <<"missing.css">> }
\* a request body: absent, not the JSON of a NewFortune, or the JSON of one
FeBodies == {"none", "malformed", "json"}
FeRequests == [method : FeMethods, path : FePaths, body : FeBodies]

\* what a filter says of a request: None when it matches, else the rejection
\* lines 164-166  warp::path("healthz").and(warp::get()): a prefix, no end()
healthz(r) ==
    IF r.path[1] # "healthz" THEN "NotFound"
    ELSE IF r.method # "GET" THEN "MethodNotAllowed"
    ELSE None

\* lines 169-171  path!("api" / "random").and(warp::get())
api_random(r) ==
    IF r.path # <<"api", "random">> THEN "NotFound"
    ELSE IF r.method # "GET" THEN "MethodNotAllowed"
    ELSE None

\* lines 173-175  path!("api" / "all").and(warp::get())
api_all(r) ==
    IF r.path # <<"api", "all">> THEN "NotFound"
    ELSE IF r.method # "GET" THEN "MethodNotAllowed"
    ELSE None

\* lines 177-180  path!("api" / "add").and(warp::post()).and(warp::body::json())
api_add(r) ==
    IF r.path # <<"api", "add">> THEN "NotFound"
    ELSE IF r.method # "POST" THEN "MethodNotAllowed"
    ELSE IF r.body # "json" THEN "BodyDeserializeError"
    ELSE None

\* line 183  warp::fs::dir("./static"): GET or HEAD of a file that exists
static_files(r) ==
    IF r.method \notin {"GET", "HEAD"} THEN "MethodNotAllowed"
    ELSE IF r.path # <<"index.html">> THEN "NotFound"
    ELSE None

\* lines 186-190  healthz.or(api_random).or(api_all).or(api_add).or(static_files)
FeRouteOrder(r) ==
    << [handler |-> "healthz", rej |-> healthz(r)],
       [handler |-> "random", rej |-> api_random(r)],
       [handler |-> "all", rej |-> api_all(r)],
       [handler |-> "add", rej |-> api_add(r)],
       [handler |-> "file", rej |-> static_files(r)] >>

\* the first filter that matches runs its handler; when none does, the
\* rejections of all of them are combined and go to recover
FeRoute(r) ==
    LET tried == FeRouteOrder(r)
        hits == { k \in DOMAIN tried : tried[k].rej = None }
    IN  IF hits = {}
           THEN [handler |-> "reject",
                 rejections |-> { tried[k].rej : k \in DOMAIN tried }]
           ELSE [handler |-> tried[CHOOSE j \in hits : \A h \in hits : j <= h].handler,
                 rejections |-> {}]

\* Rejection::is_not_found: nothing but not-found in the combined rejection
FeIsNotFound(rejections) == rejections \subseteq {"NotFound"}

\* Rejection::find::<MethodNotAllowed>: some cause is a method-not-allowed
FindMethodNotAllowed(rejections) == "MethodNotAllowed" \in rejections

\* the handler with its two tests told apart: a body error is 400, a wrong
\* method is 405
frontend_handle_rejection_TwoBranches(rejections) ==
    IF FeIsNotFound(rejections)
       THEN [status |-> 404, text |-> "Not Found"]
    ELSE IF "BodyDeserializeError" \in rejections
       THEN [status |-> 400, text |-> "Invalid JSON"]
    ELSE IF FindMethodNotAllowed(rejections)
       THEN [status |-> 405, text |-> "Method Not Allowed"]
    ELSE [status |-> 500, text |-> "Internal Server Error"]

\* lines 137-159  handle_rejection of the frontend: the same test twice
frontend_handle_rejection(rejections) ==
    IF FeIsNotFound(rejections)
       THEN [status |-> 404, text |-> "Not Found"]
    ELSE IF FindMethodNotAllowed(rejections)
       THEN [status |-> 400, text |-> "Invalid JSON"]
    ELSE IF FindMethodNotAllowed(rejections)
       THEN [status |-> 405, text |-> "Method Not Allowed"]
    ELSE [status |-> 500, text |-> "Internal Server Error"]

\* lines 21-23  healthz_handler
healthz_handler == [status |-> 200, text |-> "healthy"]

\* lines 25-54  random_handler: the backend's fortune, or the error of the call
random_handler(ok) ==
    IF ok THEN [status |-> 200, text |-> "fortune.message"]
          ELSE [status |-> 500, text |-> "Request failed"]

\* lines 56-102  all_handler: the rendered list, or the error of the call
all_handler(ok) ==
    IF ok THEN [status |-> 200, text |-> "rendered"]
          ELSE [status |-> 500, text |-> "Request failed"]

\* lines 104-135  add_handler: the POST went out, or the error of the call
add_handler(ok) ==
    IF ok THEN [status |-> 200, text |-> "Cookie added!"]
          ELSE [status |-> 500, text |-> "Request failed"]

\* warp::serve(routes): a request arrives and goes through the filters
FeReceive ==
    /\ fe.phase = "idle"
    /\ \E r \in FeRequests :
          fe' = [phase |-> "routed", method |-> r.method, path |-> r.path,
                 body |-> r.body, handler |-> FeRoute(r).handler,
                 rejections |-> FeRoute(r).rejections, status |-> 0,
                 text |-> None]
    /\ UNCHANGED backendVars

\* the handler of the filter that matched replies
FeHandle ==
    /\ fe.phase = "routed"
    /\ fe.handler # "reject"
    /\ \E ok \in BOOLEAN :
          LET reply == CASE fe.handler = "healthz" -> healthz_handler
                         [] fe.handler = "random" -> random_handler(ok)
                         [] fe.handler = "all" -> all_handler(ok)
                         [] fe.handler = "add" -> add_handler(ok)
                         [] fe.handler = "file" -> [status |-> 200, text |-> "file"]
          IN  fe' = [fe EXCEPT !.phase = "answered", !.status = reply.status,
                               !.text = reply.text]
    /\ UNCHANGED backendVars

\* line 190  recover(handle_rejection)
FeRecover ==
    /\ fe.phase = "routed"
    /\ fe.handler = "reject"
    /\ fe' = [fe EXCEPT !.phase = "answered",
                        !.status = frontend_handle_rejection(fe.rejections).status,
                        !.text = frontend_handle_rejection(fe.rejections).text]
    /\ UNCHANGED backendVars

\* the response is sent, the connection takes the next request
FeDone ==
    /\ fe.phase = "answered"
    /\ fe' = FeIdle
    /\ UNCHANGED backendVars

FrontendInit == Init /\ ~configured

FrontendNext == FeReceive \/ FeHandle \/ FeRecover \/ FeDone

FrontendSpec == FrontendInit /\ [][FrontendNext]_vars

\* -------------------------------------------------------------------------
\* C20  The frontend's rejection handler tests method-not-allowed twice, so
\*      its second branch is never taken: no request is answered with
\*      405 "Method Not Allowed", and a rejection that holds a
\*      method-not-allowed is answered with 400 "Invalid JSON".
C20_MethodNotAllowedAnswered400 ==
    fe.phase = "answered" =>
        /\ fe.status # 405
        /\ fe.text # "Method Not Allowed"
        /\ (fe.handler = "reject" /\ FindMethodNotAllowed(fe.rejections)) =>
              (fe.status = 400 /\ fe.text = "Invalid JSON")

\* C20 witness: DELETE /api/random, a wrong method and a well-formed request,
\*      has been answered 400 "Invalid JSON"
C20_Witness ==
    /\ fe.phase = "answered"
    /\ fe.method = "DELETE"
    /\ fe.path = <<"api", "random">>
    /\ fe.handler = "reject"
    /\ "MethodNotAllowed" \in fe.rejections
    /\ "BodyDeserializeError" \notin fe.rejections
    /\ fe.status = 400
    /\ fe.text = "Invalid JSON"

=============================================================================
